---- MODULE Spec2Model ----
(***************************************************************************)
(* TSExplorer (mywidgets.py): a tabbed notebook widget over a timeseries   *)
(* dataframe.  The model keeps the instance state (_data,                  *)
(* _selected_feature, _selected_dates), the state of the widgets the       *)
(* callbacks read and write (dropdown value, brush selector, figure title, *)
(* line mark, highlight multi-select, rendered table) and one action per   *)
(* callback or public method.                                              *)
(***************************************************************************)
EXTENDS Integers, Sequences, FiniteSets, TLC

VARIABLES
    data,              \* self._data: the dataframe handed to the constructor
    selected_feature,  \* self._selected_feature
    selected_dates,    \* self._selected_dates
    dropdown,          \* feature_selector.value
    title,             \* fig.title
    mark,              \* mark.x, mark.y
    brushing,          \* selector.brushing
    selected,          \* selector.selected
    hlvalue,           \* hlselfuncs.value
    html,              \* dfhtml.value: the styles of the rendered cells
    lastEvent          \* history: whether the last operation was an event of the
                       \* widgets, a click on the reset button or a call of
                       \* reset, and then with which arguments

vars == <<data, selected_feature, selected_dates, dropdown, title, mark,
          brushing, selected, hlvalue, html, lastEvent>>

-----------------------------------------------------------------------------
(* Bounds of the model *)

\* months on the date axis are 0..MaxMonth
MaxMonth == 1
\* cell values of the dataframes of the table specification are 0..MaxVal
MaxVal == 2

-----------------------------------------------------------------------------
(* Python values *)

None == [tag |-> "None"]
PyStr(s) == [tag |-> "str", s |-> s]
PyInt(n) == [tag |-> "int", n |-> n]
PyList(items) == [tag |-> "list", items |-> items]

\* bool(v), as the `if v:` tests of the code evaluate it
Truthy(v) ==
    CASE v.tag = "None" -> FALSE
      [] v.tag = "str"  -> v.s # ""
      [] v.tag = "int"  -> v.n # 0
      [] v.tag = "list" -> Len(v.items) > 0

\* str(v) inside an f-string
Format(v) ==
    CASE v.tag = "None" -> "None"
      [] v.tag = "str"  -> v.s
      [] v.tag = "int"  -> ToString(v.n)

-----------------------------------------------------------------------------
(* Timestamps: a month and what follows the month in the ISO text          *)
(* (day and time of day); rest = 0 is the first day of the month at 00:00. *)

Ts(ym, rest) == [ym |-> ym, rest |-> rest]
\* the first instant of a month, and a later instant of it
Rests == 0..1
Timestamps == {Ts(ym, rest) : ym \in 0..MaxMonth, rest \in Rests}

TsLeq(a, b) == a.ym < b.ym \/ (a.ym = b.ym /\ a.rest <= b.rest)
TsLt(a, b) == TsLeq(a, b) /\ a # b

\* all timestamps of the axis in increasing order
AllTimestamps ==
    [i \in 1..((MaxMonth + 1) * Cardinality(Rests)) |->
        Ts((i - 1) \div Cardinality(Rests), (i - 1) % Cardinality(Rests))]

\* str(ts): the text "YYYY-MM-DDTHH:MM:SS.ffffff", as the year and month it
\* begins with and the day and time that follow
TsStr(ts) == [text |-> "iso", month |-> ts.ym, daytime |-> ts.rest]
\* re.split(r'-\d\dT', s): the list of the text before the "-DDT" of the day
\* and the text after it
ReSplit(s) == <<s.month, s.daytime>>
\* pd.to_datetime("YYYY-MM"): the first day of that month, 00:00
ToDatetime(head) == Ts(head, 0)

-----------------------------------------------------------------------------
(* Dataframes and series *)

DataFrame(index, columns, values) ==
    [kind |-> "DataFrame", index |-> index, columns |-> columns, values |-> values]
Series(name, index, values) ==
    [kind |-> "Series", name |-> name, index |-> index, values |-> values]

\* position of column c in df.columns
ColPos(df, c) == CHOOSE j \in 1..Len(df.columns) : df.columns[j] = c

\* df[c]: one column as a series
GetItem(df, c) ==
    Series(c, df.index, [r \in 1..Len(df.index) |-> df.values[r][ColPos(df, c)]])

\* faulty variant: a slice that leaves out the end label
LocSlice_open_end(df, a, b) ==
    LET lo == Cardinality({r \in 1..Len(df.index) : TsLt(df.index[r], a)}) + 1
        hi == Cardinality({r \in 1..Len(df.index) : TsLt(df.index[r], b)})
    IN  [kind |-> "DataFrame", index |-> SubSeq(df.index, lo, hi),
         columns |-> df.columns, values |-> SubSeq(df.values, lo, hi)]

\* df.loc[a:b] on a sorted index: the positions from the first label >= a to
\* the last label <= b
LocSlice(df, a, b) ==
    LET lo == Cardinality({r \in 1..Len(df.index) : TsLt(df.index[r], a)}) + 1
        hi == Cardinality({r \in 1..Len(df.index) : TsLeq(df.index[r], b)})
    IN  DataFrame(SubSeq(df.index, lo, hi), df.columns, SubSeq(df.values, lo, hi))

-----------------------------------------------------------------------------
(* Table tab: the highlight rules (_gen_dataframe_tab) *)

Range(s) == {s[i] : i \in 1..Len(s)}

\* min(s), max(s) of the builtins
Min(s) == CHOOSE v \in Range(s) : \A w \in Range(s) : v <= w
Max(s) == CHOOSE v \in Range(s) : \A w \in Range(s) : v >= w

\* sorted(s), by insertion
RECURSIVE Insert(_, _)
Insert(v, s) ==
    IF s = <<>> THEN <<v>>
    ELSE IF v <= Head(s) THEN <<v>> \o s
    ELSE <<Head(s)>> \o Insert(v, Tail(s))

RECURSIVE Sorted(_)
Sorted(s) == IF s = <<>> THEN <<>> ELSE Insert(Head(s), Sorted(Tail(s)))

\* statistics.median_low(s): the middle of the sorted data, the lower of the
\* two middle values when their number is even
MedianLow(s) ==
    LET d == Sorted(s)
        n == Len(d)
    IN  IF n % 2 = 1 THEN d[n \div 2 + 1] ELSE d[n \div 2]

\* the options of the multi-select, in the order of the dict hfuncs
hfuncs == <<"min", "max", "median">>

HFunc(fname, s) ==
    CASE fname = "min"    -> Min(s)
      [] fname = "max"    -> Max(s)
      [] fname = "median" -> MedianLow(s)

HColor(fname) ==
    CASE fname = "min"    -> "red"
      [] fname = "max"    -> "lime"
      [] fname = "median" -> "yellow"

\* highlight(s, func, color): per cell of the column, the css it adds
highlight(s, fname) ==
    [r \in 1..Len(s) |-> IF s[r] = HFunc(fname, s) THEN <<HColor(fname)>> ELSE <<>>]

Column(df, j) == [r \in 1..Len(df.index) |-> df.values[r][j]]

\* df.style: a new Styler without any style
DataStyle(df) ==
    [r \in 1..Len(df.index) |-> [j \in 1..Len(df.columns) |-> <<>>]]

\* Styler.apply(func): func on every column, its css added to the cells' styles
StylerApply(style, df, fname) ==
    [r \in 1..Len(df.index) |->
        [j \in 1..Len(df.columns) |-> style[r][j] \o highlight(Column(df, j), fname)[r]]]

\* the loop of render_highlight over change.new
RECURSIVE ApplyAll(_, _, _)
ApplyAll(style, df, new) ==
    IF new = <<>> THEN style
    ELSE ApplyAll(IF Head(new) \in Range(hfuncs)
                  THEN StylerApply(style, df, Head(new)) ELSE style,
                  df, Tail(new))

\* faulty variant: a renderer that keeps styling the Styler of the last rendering
render_highlight_onto_old(df, old, new) == ApplyAll(old, df, new)

\* render_highlight(change): the new dfhtml.value (old is the value it replaces)
render_highlight(df, old, new) == ApplyAll(DataStyle(df), df, new)

\* the value of the multi-select when the options at the positions R are
\* selected: their names in the order of the options
RECURSIVE TupleFrom(_, _)
TupleFrom(R, i) ==
    IF i > Len(hfuncs) THEN <<>>
    ELSE (IF i \in R THEN <<hfuncs[i]>> ELSE <<>>) \o TupleFrom(R, i + 1)

HlValues == {TupleFrom(R, 1) : R \in SUBSET (1..Len(hfuncs))}

-----------------------------------------------------------------------------
(* Chart tab: the callbacks of _gen_series_tab, on the instance fields     *)
(* self = [feature, dates] and the widgets they write.                     *)

Self == [feature |-> selected_feature, dates |-> selected_dates]

\* faulty variant: a dropdown callback that also drops the date range
feature_selection_callback_clearing_dates(self, df, new) ==
    [self  |-> [feature |-> new, dates |-> None],
     title |-> PyStr("Feature: " \o Format(new)),
     mark  |-> [x |-> df.index, y |-> Column(df, ColPos(df, new))]]

\* feature_selection_callback(change): the instance fields, the figure title
\* and the mark afterwards
feature_selection_callback(self, df, new) ==
    LET series == GetItem(df, new)
    IN  [self  |-> [self EXCEPT !.feature = new],
         title |-> PyStr("Feature: " \o Format(new)),
         mark  |-> [x |-> series.index, y |-> series.values]]

\* faulty variant: a brush callback that does not wait for the end of the brushing
brush_sel_dt_callback_while_brushing(self, sel_brushing, sel_selected) ==
    IF Truthy(sel_selected)
    THEN [self EXCEPT !.dates =
             PyList([i \in 1..Len(sel_selected.items) |->
                        ToDatetime(ReSplit(TsStr(sel_selected.items[i]))[1])])]
    ELSE self

\* faulty variant: a brush callback that stores the timestamps as brushed
brush_sel_dt_callback_untruncated(self, sel_brushing, sel_selected) ==
    IF ~sel_brushing /\ Truthy(sel_selected)
    THEN [self EXCEPT !.dates = PyList(sel_selected.items)]
    ELSE self

\* brush_sel_dt_callback(change): the instance fields afterwards, given the
\* selector's brushing and selected traits when the callback runs
brush_sel_dt_callback(self, sel_brushing, sel_selected) ==
    LET tstamps == sel_selected
    IN  IF ~sel_brushing /\ Truthy(tstamps)
        THEN [self EXCEPT !.dates =
                 PyList([i \in 1..Len(tstamps.items) |->
                            ToDatetime(ReSplit(TsStr(tstamps.items[i]))[1])])]
        ELSE self

\* faulty variant: a reset that clears the date range whatever its flag
reset_clearing_dates(self, f, d) ==
    [feature |-> IF f THEN None ELSE self.feature, dates |-> None]

\* TSExplorer.reset(selected_feature, selected_dates)
reset(self, f, d) ==
    [feature |-> IF f THEN None ELSE self.feature,
     dates   |-> IF d THEN None ELSE self.dates]

\* faulty variant: a parameter of reset that defaults to False
reset_default_off == FALSE

\* the defaults of reset's parameters
reset_default_selected_feature == TRUE
reset_default_selected_dates == TRUE

\* faulty variant: a click handler that resets the selector only
reset_btn_click_selector_only(self, was_brushing, now_brushing) ==
    IF now_brushing # was_brushing
    THEN brush_sel_dt_callback(self, now_brushing, None)
    ELSE self

\* reset_btn_click(b): selector.reset(), whose brushing change (if any) runs
\* the brush callback on the cleared selector, then self.reset()
reset_btn_click(self, was_brushing, now_brushing) ==
    LET afterSelector == IF now_brushing # was_brushing
                         THEN brush_sel_dt_callback(self, now_brushing, None)
                         ELSE self
    IN  reset(afterSelector, reset_default_selected_feature, reset_default_selected_dates)

\* TSExplorer.selected_data
selected_data_of(df, self) ==
    LET d1 == IF Truthy(self.dates)
              THEN LocSlice(df, self.dates.items[1], self.dates.items[2])
              ELSE df
    IN  IF Truthy(self.feature) THEN GetItem(d1, self.feature) ELSE d1

selected_data == selected_data_of(data, Self)

-----------------------------------------------------------------------------
(* The dataframes given to the constructor *)

\* a fixed table of values for the chart specification
CellValue(r, j) == (r * j) % (MaxVal + 1)

Frame(index, columns) ==
    DataFrame(index, columns,
              [r \in 1..Len(index) |-> [j \in 1..Len(columns) |-> CellValue(r, j)]])

\* the dataframe of the chart specification: a row for every timestamp of
\* the axis but the first, and columns named 0, "" and "a"
ChartDatasets ==
    { Frame(Tail(AllTimestamps), <<PyInt(0), PyStr(""), PyStr("a")>>) }

\* dataframes of one to three rows and two columns with every choice of values
TableIndex == <<Ts(0, 0), Ts(0, 1), Ts(1, 0)>>
TableDatasets ==
    UNION { { DataFrame(SubSeq(TableIndex, 1, n), <<PyStr("a"), PyStr("b")>>, v) :
                v \in [1..n -> [1..2 -> 0..MaxVal]] } : n \in 1..Len(TableIndex) }

\* what the brush can hold: nothing, or an interval [a, b] of the axis
Emptied == {None, PyList(<<>>)}
Selections ==
    {PyList(<<p[1], p[2]>>) : p \in {q \in Timestamps \X Timestamps : TsLeq(q[1], q[2])}}

\* lastEvent after construction and after an event of the dropdown, the
\* brush, the multi-select or a read of a property
Ui == [kind |-> "ui"]

\* an argument of a call of reset: left out, True or False
Args == {"omitted", "True", "False"}
Flag(arg, default) == IF arg = "omitted" THEN default ELSE arg = "True"

-----------------------------------------------------------------------------
(* The state machine *)

\* __init__: filters unset, widgets in their initial state, table rendered
InitWith(datasets) ==
    /\ data \in datasets
    /\ selected_feature = None
    /\ selected_dates = None
    /\ dropdown = data.columns[1]
    /\ title = PyStr("")
    /\ mark = [x |-> <<>>, y |-> <<>>]
    /\ brushing = FALSE
    /\ selected = None
    /\ hlvalue = <<>>
    /\ html = DataStyle(data)
    /\ lastEvent = Ui

Init == InitWith(ChartDatasets)

SetSelf(self) ==
    /\ selected_feature' = self.feature
    /\ selected_dates' = self.dates

\* the user picks another column in the dropdown
DropdownChange ==
    \E c \in Range(data.columns) :
        /\ c # dropdown
        /\ dropdown' = c
        /\ LET r == feature_selection_callback(Self, data, c)
           IN  SetSelf(r.self) /\ title' = r.title /\ mark' = r.mark
        /\ lastEvent' = Ui
        /\ UNCHANGED <<data, brushing, selected, hlvalue, html>>

\* the user presses the mouse button on the chart: brushing becomes true
BrushStart ==
    /\ ~brushing
    /\ brushing' = TRUE
    /\ SetSelf(brush_sel_dt_callback(Self, TRUE, selected))
    /\ lastEvent' = Ui
    /\ UNCHANGED <<data, dropdown, title, mark, selected, hlvalue, html>>

\* the user drags: the selection follows, brushing does not change and so
\* no callback runs
BrushMove ==
    /\ brushing
    /\ \E s \in Selections : selected' = s
    /\ lastEvent' = Ui
    /\ UNCHANGED <<data, selected_feature, selected_dates, dropdown, title, mark,
                   brushing, hlvalue, html>>

\* the user releases the button: brushing becomes false, the selection is
\* the dragged interval or, after a click without a drag, empty
BrushEnd ==
    /\ brushing
    /\ brushing' = FALSE
    /\ \E s \in {selected} \cup Emptied :
          /\ selected' = s
          /\ SetSelf(brush_sel_dt_callback(Self, FALSE, s))
    /\ lastEvent' = Ui
    /\ UNCHANGED <<data, dropdown, title, mark, hlvalue, html>>

\* the user clicks the reset button
ResetBtnClick ==
    /\ selected' = None
    /\ \E b \in {brushing, FALSE} :
          /\ brushing' = b
          /\ SetSelf(reset_btn_click(Self, brushing, b))
    /\ lastEvent' = [kind |-> "reset_btn"]
    /\ UNCHANGED <<data, dropdown, title, mark, hlvalue, html>>

\* a call of reset from the notebook
ResetCall ==
    \E fa \in Args, da \in Args :
        /\ SetSelf(reset(Self, Flag(fa, reset_default_selected_feature),
                               Flag(da, reset_default_selected_dates)))
        /\ lastEvent' = [kind |-> "reset", f |-> fa, d |-> da]
        /\ UNCHANGED <<data, dropdown, title, mark, brushing, selected, hlvalue, html>>

\* the user changes the selection of highlight rules
HighlightChange ==
    \E new \in HlValues :
        /\ new # hlvalue
        /\ hlvalue' = new
        /\ html' = render_highlight(data, html, new)
        /\ lastEvent' = Ui
        /\ UNCHANGED <<data, selected_feature, selected_dates, dropdown, title, mark,
                       brushing, selected>>

\* the notebook reads selected_feature, selected_dates or selected_data
ReadProperties ==
    /\ lastEvent' = Ui
    /\ UNCHANGED <<data, selected_feature, selected_dates, dropdown, title, mark,
                   brushing, selected, hlvalue, html>>

Next ==
    \/ DropdownChange
    \/ BrushStart
    \/ BrushMove
    \/ BrushEnd
    \/ ResetBtnClick
    \/ ResetCall
    \/ HighlightChange
    \/ ReadProperties

Spec == Init /\ [][Next]_vars

\* the table tab alone, over every small dataframe
InitTable == InitWith(TableDatasets)
NextTable ==
    \/ HighlightChange
    \/ ReadProperties
SpecTable == InitTable /\ [][NextTable]_vars

-----------------------------------------------------------------------------
(* What the claims speak of *)

\* the filters as the properties selected_feature and selected_dates show them
FeatureSet == selected_feature # None
DatesSet == selected_dates # None

\* the positions of the rows of df whose label lies in [start, end], increasing
RowsWithin(df, start, end) ==
    SelectSeq([r \in 1..Len(df.index) |-> r],
              LAMBDA r : TsLeq(start, df.index[r]) /\ TsLeq(df.index[r], end))

\* the rows of df at the positions pos, as a dataframe
TakeRows(df, pos) ==
    DataFrame([i \in 1..Len(pos) |-> df.index[pos[i]]], df.columns,
              [i \in 1..Len(pos) |-> df.values[pos[i]]])

\* the dataframe sliced by the date range if one is set, then by the feature
\* if one is set
SlicedBy(df, feature, dates) ==
    LET rows == IF dates # None
                THEN TakeRows(df, RowsWithin(df, dates.items[1], dates.items[2]))
                ELSE df
    IN  IF feature # None THEN GetItem(rows, feature) ELSE rows

\* a step that is an event of the brush: brushing or the selection changes
\* and the step is no click on the reset button
BrushEvent ==
    /\ lastEvent'.kind = "ui"
    /\ (brushing' # brushing \/ selected' # selected)

\* a step that is a call reset(selected_feature=fa, selected_dates=da)
IsResetCall(fa, da) ==
    /\ lastEvent'.kind = "reset"
    /\ lastEvent'.f = fa
    /\ lastEvent'.d = da

-----------------------------------------------------------------------------
(* C1 *)

\* C1 as stated: from a state with a date range set, reset(selected_feature=True)
\* with no other argument clears the feature and leaves selected_dates unchanged.
C1_ResetFeatureOnlyKeepsDates ==
    [][(IsResetCall("True", "omitted") /\ DatesSet)
         => (selected_feature' = None /\ selected_dates' = selected_dates)]_vars

\* C1 amended: from a state with a date range set, the call
\* reset(selected_feature=True, selected_dates=False) clears only the feature and
\* leaves selected_dates unchanged, while reset(selected_feature=True) with
\* selected_dates left out clears the date range too.
C1_ResetFeatureWithDatesFalse ==
    [][DatesSet =>
         /\ IsResetCall("True", "False")
              => (selected_feature' = None /\ selected_dates' = selected_dates)
         /\ IsResetCall("True", "omitted")
              => (selected_feature' = None /\ selected_dates' = None)]_vars

\* a state right after reset(selected_feature=True, selected_dates=False) in
\* which the date range is still there
C1_Witness ==
    /\ lastEvent = [kind |-> "reset", f |-> "True", d |-> "False"]
    /\ DatesSet
    /\ ~FeatureSet
    /\ title # PyStr("")

-----------------------------------------------------------------------------
(* C2 *)

\* C2: reset(selected_feature=f, selected_dates=d) with both flags given sets
\* selected_feature to None iff f and keeps it otherwise, sets selected_dates to
\* None iff d and keeps it otherwise; reset() leaves both None.
C2_ResetFlags ==
    [][/\ \A fa \in {"True", "False"}, da \in {"True", "False"} :
            IsResetCall(fa, da) =>
                /\ selected_feature' = IF fa = "True" THEN None ELSE selected_feature
                /\ selected_dates' = IF da = "True" THEN None ELSE selected_dates
       /\ IsResetCall("omitted", "omitted")
            => (selected_feature' = None /\ selected_dates' = None)]_vars

\* a state right after reset(selected_feature=False, selected_dates=True) that
\* kept a feature and has no date range
C2_Witness ==
    /\ lastEvent = [kind |-> "reset", f |-> "False", d |-> "True"]
    /\ FeatureSet
    /\ ~DatesSet

-----------------------------------------------------------------------------
(* C3 *)

\* C3: in every reachable state selected_data is the dataset sliced by the
\* current date range (if set) and then by the current feature (if set); with
\* both unset it is the full dataset.
C3_SelectedDataFollowsFilters ==
    /\ selected_data = SlicedBy(data, selected_feature, selected_dates)
    /\ (~FeatureSet /\ ~DatesSet) => selected_data = data

-----------------------------------------------------------------------------
(* C4 *)

\* C4: after the dropdown changes to a column c (the names 0 and "" included)
\* selected_feature is c and selected_data is the single column c, restricted
\* to the rows of the date range when one is set.
C4_FeatureGivesSingleColumn ==
    [][dropdown' # dropdown =>
         /\ selected_feature' = dropdown'
         /\ selected_data'.kind = "Series"
         /\ selected_data' = SlicedBy(data', dropdown', selected_dates')]_vars

\* C4, the part the code keeps: after the dropdown changes to a column whose
\* name is truthy, selected_data is that single column
C4_TruthyNameGivesSingleColumn ==
    [][(dropdown' # dropdown /\ Truthy(dropdown')) =>
         /\ selected_feature' = dropdown'
         /\ selected_data' = SlicedBy(data', dropdown', selected_dates')]_vars

-----------------------------------------------------------------------------
(* C5 *)

\* C5: whenever a date range (start, end) is set, the rows of selected_data are
\* exactly the rows of the dataset with start <= label <= end, both ends
\* included, in the order of the dataset.
C5_RowsWithinRangeInclusive ==
    DatesSet =>
        LET pos == RowsWithin(data, selected_dates.items[1], selected_dates.items[2])
            sd  == selected_data
        IN  /\ sd.index = [i \in 1..Len(pos) |-> data.index[pos[i]]]
            /\ Len(sd.values) = Len(pos)
            /\ \A i \in 1..Len(pos) :
                  sd.values[i] = IF sd.kind = "Series"
                                 THEN data.values[pos[i]][ColPos(data, sd.name)]
                                 ELSE data.values[pos[i]]

\* a date range whose start and whose end are labels of rows, with a row
\* outside it: the rows at both ends are in selected_data, the other is not
C5_Witness ==
    /\ DatesSet
    /\ \E r1, r2, r3 \in 1..Len(data.index) :
          /\ data.index[r1] = selected_dates.items[1]
          /\ data.index[r2] = selected_dates.items[2]
          /\ data.index[r1] \in Range(selected_data.index)
          /\ data.index[r2] \in Range(selected_data.index)
          /\ data.index[r3] \notin Range(selected_data.index)

-----------------------------------------------------------------------------
(* C6 *)

\* C6: an event of the brush changes selected_dates only when it ends the
\* brushing (brushing is false when the callback runs) with a non-empty
\* selection; while brushing, or with an empty selection, selected_dates stays
\* exactly as it was.
C6_BrushUpdatesOnlyAtEndNonEmpty ==
    [][BrushEvent =>
         IF brushing' # brushing /\ ~brushing' /\ Truthy(selected')
         THEN DatesSet'
         ELSE selected_dates' = selected_dates]_vars

\* a brush ended with an empty selection and the range stored before is
\* still there
C6_Witness ==
    /\ lastEvent = Ui
    /\ ~brushing
    /\ selected \in Emptied
    /\ DatesSet

-----------------------------------------------------------------------------
(* C7 *)

\* C7: when the click on the reset button is handled, with every brush
\* callback it triggers, the brush selection is empty and selected_feature and
\* selected_dates are both None.
C7_ResetButtonClearsBrushAndFilters ==
    lastEvent.kind = "reset_btn" =>
        /\ ~Truthy(selected)
        /\ selected_feature = None
        /\ selected_dates = None

\* the button was clicked after a column had been chosen in the dropdown
C7_Witness ==
    /\ lastEvent.kind = "reset_btn"
    /\ title # PyStr("")
    /\ ~brushing
    /\ ~FeatureSet /\ ~DatesSet

-----------------------------------------------------------------------------
(* C8 *)

\* C8: both filters are None after construction; a dropdown change sets the
\* title and the plotted series to the chosen column and changes
\* selected_feature but not selected_dates; an event of the brush never
\* changes selected_feature; a change of the highlight rules changes neither
\* filter; a filter changes only by its own event or a reset; and no step
\* changes the dataset.
C8_FiltersChangedOnlyByTheirOwnOperation ==
    /\ (~FeatureSet /\ ~DatesSet)
    /\ [][/\ data' = data
          /\ dropdown' # dropdown =>
                /\ selected_feature' = dropdown'
                /\ selected_feature' # selected_feature
                /\ selected_dates' = selected_dates
                /\ title' = PyStr("Feature: " \o Format(dropdown'))
                /\ mark'.x = data.index
                /\ mark'.y = [r \in 1..Len(data.index) |->
                                 data.values[r][ColPos(data, dropdown')]]
          /\ BrushEvent => selected_feature' = selected_feature
          /\ hlvalue' # hlvalue =>
                (selected_feature' = selected_feature /\ selected_dates' = selected_dates)
          /\ selected_feature' # selected_feature =>
                (dropdown' # dropdown \/ lastEvent'.kind \in {"reset", "reset_btn"})
          /\ selected_dates' # selected_dates =>
                (BrushEvent \/ lastEvent'.kind \in {"reset", "reset_btn"})]_vars

\* a column was chosen in the dropdown while a date range was set and the
\* highlight rules had been changed
C8_Witness ==
    /\ lastEvent = Ui
    /\ FeatureSet
    /\ DatesSet
    /\ hlvalue # <<>>

-----------------------------------------------------------------------------
(* C9 *)

\* the value a rule looks for in a column
RuleValue(fname, s) ==
    CASE fname = "min"    -> CHOOSE v \in Range(s) : \A i \in 1..Len(s) : v <= s[i]
      [] fname = "max"    -> CHOOSE v \in Range(s) : \A i \in 1..Len(s) : s[i] <= v
      [] fname = "median" ->
            CHOOSE v \in Range(s) :
                /\ Cardinality({i \in 1..Len(s) : s[i] < v}) < (Len(s) + 1) \div 2
                /\ (Len(s) + 1) \div 2 <= Cardinality({i \in 1..Len(s) : s[i] <= v})

RuleColor(fname) ==
    CASE fname = "min" -> "red" [] fname = "max" -> "lime" [] fname = "median" -> "yellow"

\* C9: the rendered table carries, in every cell, the colour of each selected
\* rule whose value for the column the cell equals, once, and nothing else:
\* no colour of a rule that is not selected now, none on a cell no selected
\* rule matches.
C9_TableRenderedFromCurrentRules ==
    \A r \in 1..Len(data.index), j \in 1..Len(data.columns) :
        LET s == Column(data, j)
            cell == html[r][j]
            matching == {i \in 1..Len(hlvalue) : s[r] = RuleValue(hlvalue[i], s)}
        IN  /\ \A i \in matching : RuleColor(hlvalue[i]) \in Range(cell)
            /\ \A c \in Range(cell) : \E i \in matching : RuleColor(hlvalue[i]) = c
            /\ Len(cell) = Cardinality(matching)

\* only the rule max is selected, there are cells without a highlight, among
\* them one holding the minimum of its column, and a cell highlighted lime
C9_Witness ==
    /\ hlvalue = <<"max">>
    /\ \E r \in 1..Len(data.index), j \in 1..Len(data.columns) :
          /\ data.values[r][j] = RuleValue("min", Column(data, j))
          /\ html[r][j] = <<>>
    /\ \E r \in 1..Len(data.index), j \in 1..Len(data.columns) : html[r][j] = <<"lime">>

-----------------------------------------------------------------------------
(* C10 *)

\* a step that completes a brush with a non-empty selection
BrushCompleted ==
    /\ lastEvent'.kind = "ui"
    /\ brushing /\ ~brushing'
    /\ Truthy(selected')

\* C10: a completed non-empty brush (a, b), a <= b, stores the first instants
\* of the months of a and of b; so selected_dates is None or a pair with
\* start <= end, each stored date is no later than the brushed timestamp it
\* comes from, and the rows after the first instant of b's month are not in
\* selected_data, also those inside [a, b].
C10_BrushStoresMonthStarts ==
    /\ [](DatesSet =>
            /\ Len(selected_dates.items) = 2
            /\ TsLeq(selected_dates.items[1], selected_dates.items[2]))
    /\ [][BrushCompleted =>
            LET a == selected'.items[1]
                b == selected'.items[2]
            IN  /\ selected_dates' = PyList(<<Ts(a.ym, 0), Ts(b.ym, 0)>>)
                /\ TsLeq(selected_dates'.items[1], a)
                /\ TsLeq(selected_dates'.items[2], b)
                /\ \A r \in 1..Len(data.index) :
                      TsLt(Ts(b.ym, 0), data.index[r])
                          => data.index[r] \notin Range(selected_data'.index)]_vars

\* the brush (a, b) is completed and stored, and a row of the dataset lies
\* inside [a, b] but after the first instant of b's month
C10_Witness ==
    /\ lastEvent = Ui
    /\ ~brushing
    /\ Truthy(selected)
    /\ selected_dates = PyList(<<Ts(selected.items[1].ym, 0), Ts(selected.items[2].ym, 0)>>)
    /\ selected.items[1].ym < selected.items[2].ym
    /\ \E r \in 1..Len(data.index) :
          /\ TsLeq(selected.items[1], data.index[r])
          /\ TsLeq(data.index[r], selected.items[2])
          /\ TsLt(selected_dates.items[2], data.index[r])
          /\ data.index[r] \notin Range(selected_data.index)

====
